---- MODULE Spec2Model ----
(***************************************************************************)
(* A model of the jsonwebkey crate (src/src/lib.rs, src/src/byte_array.rs):*)
(* the JsonWebKey record, its Key variants, algorithm validation, JSON     *)
(* parsing, public-key derivation and the PKCS#8 DER / PEM export.         *)
(*                                                                         *)
(* Bytes are integers 0..255.  Text the code inspects character by         *)
(* character (base64, PEM) is a sequence of one-character strings; tags    *)
(* the code only compares ("EC", "HS256", ...) are strings.                *)
(* Option<T> is a sequence: None is <<>> and Some(v) is <<v>>.             *)
(***************************************************************************)
EXTENDS Integers, Sequences, FiniteSets, TLC

VARIABLES jwk, result

vars == <<jwk, result>>

(***************************************************************************)
(* Bounds of the model.                                                    *)
(***************************************************************************)
\* Byte vectors (RSA integers, symmetric keys) have 0..MaxVecLen bytes.
MaxVecLen == 20

\* Candidate texts for the public exponent are built from prefixes of at
\* most MaxExpLen symbols.
MaxExpLen == 4

(***************************************************************************)
(* Option and Result.                                                      *)
(***************************************************************************)
None == <<>>

Some(v) == <<v>>

Ok(v) == [tag |-> "Ok", value |-> v]

Err(e) == [tag |-> "Err", err |-> e]

\* A panic (unwrap on None, unreachable!) aborts the call.
Abort == [tag |-> "Abort"]

IsOk(r) == r.tag = "Ok"

IsErr(r) == r.tag = "Err"

(***************************************************************************)
(* Sequence helpers.                                                       *)
(***************************************************************************)
Fill(b, n) == [i \in 1..n |-> b]

RECURSIVE Concat(_)
Concat(ss) == IF ss = <<>> THEN <<>> ELSE Head(ss) \o Concat(Tail(ss))

Min(a, b) == IF a < b THEN a ELSE b

(***************************************************************************)
(* base64.                                                                 *)
(***************************************************************************)
AlphaNum ==
    << "A","B","C","D","E","F","G","H","I","J","K","L","M",
       "N","O","P","Q","R","S","T","U","V","W","X","Y","Z",
       "a","b","c","d","e","f","g","h","i","j","k","l","m",
       "n","o","p","q","r","s","t","u","v","w","x","y","z",
       "0","1","2","3","4","5","6","7","8","9" >>

\* base64::STANDARD, the configuration of base64::encode.
StdAlphabet == AlphaNum \o << "+", "/" >>

\* The URL-safe alphabet of RFC 4648, section 5.
UrlAlphabet == AlphaNum \o << "-", "_" >>

\* The i-th 6-bit group (0-based) of a byte sequence, zero-extended.
Sextet(bytes, i) ==
    LET g == i \div 4
        k == i % 4
        B(j) == IF 3 * g + j <= Len(bytes) THEN bytes[3 * g + j] ELSE 0
    IN  CASE k = 0 -> B(1) \div 4
          [] k = 1 -> (B(1) % 4) * 16 + B(2) \div 16
          [] k = 2 -> (B(2) % 16) * 4 + B(3) \div 64
          [] OTHER -> B(3) % 64

\* base64 encoding of bytes over an alphabet, padded with "=" when pad.
Base64EncodeConfig(bytes, alphabet, pad) ==
    LET n == Len(bytes)
        symbols == (n \div 3) * 4 + (IF n % 3 = 0 THEN 0 ELSE (n % 3) + 1)
        total == IF pad THEN ((n + 2) \div 3) * 4 ELSE symbols
    IN  [i \in 1..total |->
            IF i <= symbols THEN alphabet[Sextet(bytes, i - 1) + 1] ELSE "="]

\* base64::encode: standard alphabet, padded.
Base64Encode(bytes) == Base64EncodeConfig(bytes, StdAlphabet, TRUE)

SymbolIndex(alphabet, c) == CHOOSE i \in 1..64 : alphabet[i] = c

\* base64 decoding over an alphabet.  A symbol outside the alphabet, a symbol
\* after a "=", and a "=" in the first two places of a quantum are invalid
\* bytes; what is left is the symbols followed by at most two "=", whose
\* number is not checked against the number of symbols ("AA=" decodes as
\* "AA==" does).  Unused trailing bits must be zero.
Base64DecodeConfig(text, alphabet) ==
    LET n == Len(text)
        pads == Cardinality({i \in 1..n : text[i] = "="})
        m == n - pads
        idx(i) == SymbolIndex(alphabet, text[i]) - 1
        out == (m \div 4) * 3 + (IF m % 4 = 0 THEN 0 ELSE (m % 4) - 1)
        byteAt(j) ==
            LET g == (j - 1) \div 3
                k == (j - 1) % 3
                s(q) == idx(4 * g + q)
            IN  CASE k = 0 -> s(1) * 4 + s(2) \div 16
                  [] k = 1 -> (s(2) % 16) * 16 + s(3) \div 4
                  [] OTHER -> (s(3) % 4) * 64 + s(4)
    IN  IF \E i \in 1..n :
              \/ text[i] # "=" /\ \A j \in 1..64 : alphabet[j] # text[i]
              \/ text[i] # "=" /\ \E h \in 1..(i - 1) : text[h] = "="
              \/ text[i] = "=" /\ (i - 1) % 4 < 2
        THEN Err("InvalidByte")
        ELSE IF m % 4 = 1
        THEN Err("InvalidLength")
        ELSE IF (m % 4 = 2 /\ idx(m) % 16 # 0) \/ (m % 4 = 3 /\ idx(m) % 4 # 0)
        THEN Err("InvalidLastSymbol")
        ELSE Ok([j \in 1..out |-> byteAt(j)])

(***************************************************************************)
(* The DER writer (yasna), as far as try_to_der uses it.                   *)
(***************************************************************************)
\* Big-endian bytes of a natural number, without leading zeros (0 is <<0>>).
RECURSIVE NatBytes(_)
NatBytes(v) == IF v < 256 THEN <<v>> ELSE NatBytes(v \div 256) \o <<v % 256>>

\* DER length octets: short form below 128, long form otherwise.
DerLength(n) ==
    IF n < 128 THEN <<n>> ELSE LET b == NatBytes(n) IN <<128 + Len(b)>> \o b

\* One tag-length-value item.
DerItem(tag, content) == <<tag>> \o DerLength(Len(content)) \o content

\* A non-negative INTEGER from its magnitude bytes: a 0x00 is put in front
\* when the top bit is set.
DerUnsigned(mag) == DerItem(2, IF mag[1] >= 128 THEN <<0>> \o mag ELSE mag)

\* DERWriter::write_i8, for the versions 0 and 1 the code writes.
write_i8(v) == DerUnsigned(<<v>>)

\* DERWriter::write_u32.
write_u32(v) == DerUnsigned(NatBytes(v))

\* BigUint::from_bytes_be: the value of the bytes, i.e. the bytes without
\* their leading zeros (the empty sequence is zero).
RECURSIVE StripLeadingZeros(_)
StripLeadingZeros(bytes) ==
    IF bytes # <<>> /\ Head(bytes) = 0 THEN StripLeadingZeros(Tail(bytes)) ELSE bytes

\* DERWriter::write_biguint of BigUint::from_bytes_be(vec).
write_bytevec(vec) ==
    LET mag == StripLeadingZeros(vec)
    IN  DerUnsigned(IF mag = <<>> THEN <<0>> ELSE mag)

\* Base-128 digits of an OBJECT IDENTIFIER arc, continuation bit on all but
\* the last.
RECURSIVE Base128High(_)
Base128High(v) ==
    IF v < 128 THEN <<v + 128>> ELSE Base128High(v \div 128) \o <<(v % 128) + 128>>

Base128(v) == IF v < 128 THEN <<v>> ELSE Base128High(v \div 128) \o <<v % 128>>

\* DERWriter::write_oid.
write_oid(arcs) ==
    DerItem(6, <<40 * arcs[1] + arcs[2]>>
               \o Concat([i \in 1..(Len(arcs) - 2) |-> Base128(arcs[i + 2])]))

\* DERWriter::write_null.
write_null == <<5, 0>>

\* DERWriter::write_bytes: an OCTET STRING.
write_bytes(bytes) == DerItem(4, bytes)

\* DERWriter::write_sequence around the items the closure wrote.
write_sequence(content) == DerItem(48, content)

\* DERWriter::write_tagged(Tag::context(n), ..): explicit, constructed.
write_tagged_context(n, content) == DerItem(160 + n, content)

\* DERWriter::write_bitvec_bytes(bytes, bitlen): the count of unused bits,
\* then the bytes with the unused bits of the last one cleared.
write_bitvec_bytes(bytes, bitlen) ==
    LET unused == 8 * Len(bytes) - bitlen
        pow == 2 ^ unused
        masked == [i \in 1..Len(bytes) |->
                     IF i = Len(bytes) THEN (bytes[i] \div pow) * pow ELSE bytes[i]]
    IN  DerItem(3, <<unused>> \o masked)

\* utils::pkcs8: the AlgorithmIdentifier, an OID or NULL per entry.
write_oids(oids) ==
    Concat([i \in 1..Len(oids) |->
              IF oids[i] = None THEN write_null ELSE write_oid(oids[i][1])])

\* utils::pkcs8::write_private: PrivateKeyInfo { version 0, algorithm,
\* OCTET STRING { SEQUENCE { body } } }.
pkcs8_write_private(oids, body) ==
    write_sequence(write_i8(0)
                   \o write_sequence(write_oids(oids))
                   \o write_bytes(write_sequence(body)))

\* utils::pkcs8::write_public: SubjectPublicKeyInfo { algorithm, body }.
pkcs8_write_public(oids, body) ==
    write_sequence(write_sequence(write_oids(oids)) \o body)

(***************************************************************************)
(* Key, Curve, RsaPublic, RsaPrivate.                                      *)
(***************************************************************************)
\* The unit struct PublicExponent: it has one value.
PublicExponent == "PublicExponent"

PUBLIC_EXPONENT == 65537

PUBLIC_EXPONENT_B64 == <<"A", "Q", "A", "B">>

PUBLIC_EXPONENT_B64_PADDED == <<"A", "Q", "A", "B", "A", "A", "=", "=">>

\* Curve::P256 { d, x, y }
P256(d, x, y) == [crv |-> "P256", d |-> d, x |-> x, y |-> y]

\* Key::EC { curve }
EC(curve) == [variant |-> "EC", curve |-> curve]

RsaPublic(n) == [e |-> PublicExponent, n |-> n]

RsaPrivate(d, p, q, dp, dq, qi) ==
    [d |-> d, p |-> p, q |-> q, dp |-> dp, dq |-> dq, qi |-> qi]

\* Key::RSA { public, private }
RSA(public, private) == [variant |-> "RSA", public |-> public, private |-> private]

\* Key::Symmetric { key }
Symmetric(key) == [variant |-> "Symmetric", key |-> key]

is_private_ignores_rsa(key) ==
    \/ key.variant = "Symmetric"
    \/ key.variant = "EC" /\ key.curve.crv = "P256" /\ key.curve.d # None

\* Key::is_private
is_private(key) ==
    \/ key.variant = "Symmetric"
    \/ key.variant = "EC" /\ key.curve.crv = "P256" /\ key.curve.d # None
    \/ key.variant = "RSA" /\ key.private # None

to_public_keeps_scalar(key) ==
    IF ~is_private(key) THEN Some(key)
    ELSE CASE key.variant = "Symmetric" -> None
           [] key.variant = "EC" -> Some(key)
           [] key.variant = "RSA" -> Some(RSA(key.public, None))

to_public_of_symmetric(key) ==
    IF ~is_private(key) THEN Some(key)
    ELSE CASE key.variant = "Symmetric" -> Some(key)
           [] key.variant = "EC" ->
                Some(EC(P256(None, key.curve.x, key.curve.y)))
           [] key.variant = "RSA" -> Some(RSA(key.public, None))

\* Key::to_public
to_public(key) ==
    IF ~is_private(key) THEN Some(key)
    ELSE CASE key.variant = "Symmetric" -> None
           [] key.variant = "EC" ->
                Some(EC(P256(None, key.curve.x, key.curve.y)))
           [] key.variant = "RSA" -> Some(RSA(key.public, None))

\* The closure write_public of the EC arm: the uncompressed point as a BIT
\* STRING.
ec_write_public(x, y) ==
    write_bitvec_bytes(<<4>> \o x \o y, 8 * (32 * 2 + 1))

\* The closure write_public of the RSA arm: modulus and exponent.
rsa_write_public(public) == write_bytevec(public.n) \o write_u32(PUBLIC_EXPONENT)

\* The closure write_private of the RSA arm; it unwraps p, q, dp, dq, qi and
\* so aborts when one is None.
rsa_write_private(public, private) ==
    IF \E o \in {private.p, private.q, private.dp, private.dq, private.qi} : o = None
    THEN Abort
    ELSE Ok(write_i8(0)
            \o rsa_write_public(public)
            \o write_bytevec(private.d)
            \o write_bytevec(private.p[1])
            \o write_bytevec(private.q[1])
            \o write_bytevec(private.dp[1])
            \o write_bytevec(private.dq[1])
            \o write_bytevec(private.qi[1]))

ec_public_oid == <<1, 2, 840, 10045, 2, 1>>

prime256v1_oid == <<1, 2, 840, 10045, 3, 1, 7>>

rsa_encryption_oid == <<1, 2, 840, 113549, 1, 1, 1>>

HasFourCrt(private) ==
    /\ private.p # None
    /\ private.q # None
    /\ private.dp # None
    /\ private.dq # None

\* The first pattern of the RSA arm's match on private: p, q, dp, dq and qi
\* are all Some.
HasAllCrt(private) ==
    /\ private.p # None
    /\ private.q # None
    /\ private.dp # None
    /\ private.dq # None
    /\ private.qi # None

\* pkcs8::write_private around a body whose writer may have aborted.
WrittenPrivate(oids, body) ==
    IF IsOk(body) THEN Ok(pkcs8_write_private(oids, body.value)) ELSE body

\* The body of the public RSA arm: RSAPublicKey as the BIT STRING.
rsa_public_bits(body) == write_bitvec_bytes(body, Len(body) * 8)

\* Key::try_to_der
try_to_der(key) ==
    IF key.variant = "Symmetric" THEN Err("NotAsymmetric")
    ELSE IF key.variant = "EC"
    THEN IF key.curve.d # None
         THEN Ok(pkcs8_write_private(
                    <<Some(ec_public_oid), Some(prime256v1_oid)>>,
                    write_i8(1)
                    \o write_bytes(key.curve.d[1])
                    \o write_tagged_context(1, ec_write_public(key.curve.x, key.curve.y))))
         ELSE Ok(pkcs8_write_public(
                    <<Some(ec_public_oid), Some(prime256v1_oid)>>,
                    ec_write_public(key.curve.x, key.curve.y)))
    ELSE IF key.private # None /\ HasAllCrt(key.private[1])
         THEN WrittenPrivate(<<Some(rsa_encryption_oid), None>>,
                             rsa_write_private(key.public, key.private[1]))
         ELSE IF key.private # None THEN Err("MissingRsaParams")
         ELSE Ok(pkcs8_write_public(
                    <<Some(rsa_encryption_oid), None>>,
                    rsa_public_bits(write_sequence(rsa_write_public(key.public)))))

MAX_LINE_LEN == 64

Dashes == <<"-", "-", "-", "-", "-">>

KeyWord == <<" ", "K", "E", "Y">>

BeginWord == <<"B", "E", "G", "I", "N", " ">>

EndWord == <<"E", "N", "D", " ">>

PrivateWord == <<"P", "R", "I", "V", "A", "T", "E">>

PublicWord == <<"P", "U", "B", "L", "I", "C">>

\* writeln!: the text, then a line feed.
writeln(text) == text \o <<"\n">>

\* The loop over (0..der_b64.len()).step_by(MAX_LINE_LEN), from offset i.
RECURSIVE pem_body(_, _, _)
pem_body(der_b64, i, width) ==
    IF i >= Len(der_b64) THEN <<>>
    ELSE writeln(SubSeq(der_b64, i + 1, Min(i + width, Len(der_b64))))
         \o pem_body(der_b64, i + width, width)

try_to_pem_with(key, private, width) ==
    LET der == try_to_der(key)
    IN  IF ~IsOk(der) THEN der
        ELSE LET der_b64 == Base64Encode(der.value)
                 key_ty == IF private THEN PrivateWord ELSE PublicWord
             IN  Ok(writeln(Dashes \o BeginWord \o key_ty \o KeyWord \o Dashes)
                    \o pem_body(der_b64, 0, width)
                    \o writeln(Dashes \o EndWord \o key_ty \o KeyWord \o Dashes))

try_to_pem_wide(key) == try_to_pem_with(key, is_private(key), 76)

\* Key::try_to_pem
try_to_pem(key) == try_to_pem_with(key, is_private(key), MAX_LINE_LEN)

\* Result::unwrap / Option::unwrap: the value, or a panic.
unwrap(r) == IF IsOk(r) THEN r ELSE Abort

\* Key::to_pem
to_pem(key) == unwrap(try_to_pem(key))

\* What a jsonwebtoken::DecodingKey was made from: the constructor called
\* and the bytes handed to it.
DecodingKey(from, input) == [from |-> from, input |-> input]

\* jwt::DecodingKey::from_ec_pem / from_rsa_pem on the text to_pem returned,
\* when it returned one.
FromPem(from, pem) ==
    IF IsOk(pem) THEN Ok(DecodingKey(from, pem.value)) ELSE Abort

\* Key::to_decoding_key
to_decoding_key(key) ==
    CASE key.variant = "Symmetric" -> Ok(DecodingKey("from_secret", key.key))
      [] key.variant = "EC" -> FromPem("from_ec_pem", to_pem(to_public(key)[1]))
      [] key.variant = "RSA" -> FromPem("from_rsa_pem", to_pem(key))

(***************************************************************************)
(* ByteArray<N> and the base64 transport of the byte containers.           *)
(***************************************************************************)
\* typenum::U32, the length of a P-256 coordinate or scalar.
U32 == 32

\* typenum::U0 and typenum::U7, the lengths byte_array.rs's tests use.
U0 == 0

U7 == 7

try_from_slice_at_least(bytes, N) ==
    IF Len(bytes) < N THEN Err([expected |-> N, got |-> Len(bytes)])
    ELSE Ok(SubSeq(bytes, 1, N))

\* ByteArray::<N>::try_from_slice
try_from_slice(bytes, N) ==
    IF Len(bytes) # N THEN Err([expected |-> N, got |-> Len(bytes)]) ELSE Ok(bytes)

\* utils::serialize_base64 (URL-safe alphabet as in the crate's own example
\* document, padded as in byte_array.rs's BASE64_JSON).
serialize_base64(bytes) == Base64EncodeConfig(bytes, UrlAlphabet, TRUE)

\* utils::deserialize_base64
deserialize_base64(text) == Base64DecodeConfig(text, UrlAlphabet)

\* A failure of a field's deserializer, as the serde error it is reported as.
SerdeError(r) == IF IsOk(r) THEN r ELSE Err("Serde")

\* The length check of Deserialize for ByteArray<N> on the decoded bytes.
ByteArrayOf(decoded, N) ==
    IF IsOk(decoded) THEN SerdeError(try_from_slice(decoded.value, N)) ELSE Err("Serde")

\* Deserialize for ByteArray<N>: decode, then check the length.
deserialize_byte_array(text, N) == ByteArrayOf(deserialize_base64(text), N)

\* Deserialize for ByteVec: decode only.
deserialize_byte_vec(text) == SerdeError(deserialize_base64(text))

deserialize_exponent_unpadded_only(e) ==
    IF e = PUBLIC_EXPONENT_B64 THEN Ok(PublicExponent) ELSE Err("Serde")

\* Deserialize for PublicExponent
deserialize_exponent(e) ==
    IF e = PUBLIC_EXPONENT_B64 \/ e = PUBLIC_EXPONENT_B64_PADDED
    THEN Ok(PublicExponent)
    ELSE Err("Serde")

\* Serialize for PublicExponent
serialize_exponent(e) == PUBLIC_EXPONENT_B64

(***************************************************************************)
(* JsonWebKey and its JSON form.  A JSON object is a function from member  *)
(* names to values; a member that is left out is not in its domain.        *)
(***************************************************************************)
Unit == "()"

JsonWebKey(key, key_use, key_ops, key_id, algorithm) ==
    [key |-> key, key_use |-> key_use, key_ops |-> key_ops,
     key_id |-> key_id, algorithm |-> algorithm]

\* JsonWebKey::new
new(key) == JsonWebKey(key, None, {}, None, None)

validate_algorithm_any_asymmetric(alg, key) ==
    IF \/ alg = "ES256" /\ key.variant \in {"EC", "RSA"}
       \/ alg = "RS256" /\ key.variant \in {"EC", "RSA"}
       \/ alg = "HS256" /\ key.variant = "Symmetric"
    THEN Ok(Unit)
    ELSE Err("MismatchedAlgorithm")

\* JsonWebKey::validate_algorithm
validate_algorithm(alg, key) ==
    IF \/ alg = "ES256" /\ key.variant = "EC" /\ key.curve.crv = "P256"
       \/ alg = "RS256" /\ key.variant = "RSA"
       \/ alg = "HS256" /\ key.variant = "Symmetric"
    THEN Ok(Unit)
    ELSE Err("MismatchedAlgorithm")

set_algorithm_before_validating(self, alg) ==
    LET valid == validate_algorithm(alg, self.key)
    IN  [self |-> [self EXCEPT !.algorithm = Some(alg)], ret |-> valid]

\* JsonWebKey::set_algorithm: the record after the call and what it returns.
set_algorithm(self, alg) ==
    LET valid == validate_algorithm(alg, self.key)
    IN  IF IsErr(valid) THEN [self |-> self, ret |-> valid]
        ELSE [self |-> [self EXCEPT !.algorithm = Some(alg)], ret |-> Ok(Unit)]

Has(doc, name) == name \in DOMAIN doc

\* The empty JSON object.
NoMembers == [name \in {} |-> None]

Member(name, value) == name :> value

\* A member written only when the Option holds a value (skip_serializing_if);
\* value is what the held value serializes to.
OptMember(name, opt, value) ==
    IF opt = None THEN NoMembers ELSE Member(name, value)

\* A required member; value is what the member deserializes to.
Field(doc, name, value) ==
    IF Has(doc, name) THEN value ELSE Err("Serde")

SomeOf(r) == IF IsOk(r) THEN Ok(Some(r.value)) ELSE r

\* An optional member: None when left out.
OptField(doc, name, value) ==
    IF Has(doc, name) THEN SomeOf(value) ELSE Ok(None)

deserialize_u32(text) == deserialize_byte_array(text, U32)

\* The names KeyOps knows, in declaration order.
KeyOpNames ==
    << "sign", "verify", "encrypt", "decrypt",
       "wrapKey", "unwrapKey", "deriveKey", "deriveBits" >>

\* The tokens of a set one after the other; the order within the array has
\* no meaning, the set read back does not depend on it.
RECURSIVE TokensOf(_)
TokensOf(tokens) ==
    IF tokens = {} THEN <<>>
    ELSE LET t == CHOOSE x \in tokens : TRUE
         IN  <<t>> \o TokensOf(tokens \ {t})

\* Serialize for KeyOps: the names it knows in declaration order, then the
\* tokens it does not know, passed through as they are.
serialize_key_ops(ops) ==
    SelectSeq(KeyOpNames, LAMBDA n : n \in ops)
    \o TokensOf(ops \ {KeyOpNames[i] : i \in 1..Len(KeyOpNames)})

deserialize_key_ops(array) == Ok({array[i] : i \in 1..Len(array)})

serialize_key_use(u) == IF u = "Signing" THEN "sig" ELSE "enc"

deserialize_key_use(s) ==
    CASE s = "sig" -> Ok("Signing")
      [] s = "enc" -> Ok("Encryption")
      [] OTHER -> Err("Serde")

deserialize_algorithm(s) ==
    IF s \in {"HS256", "RS256", "ES256"} THEN Ok(s) ELSE Err("Serde")

deserialize_string(s) == Ok(s)

\* Serialize for Key (tag "kty"; Curve is flattened with tag "crv").
serialize_key(key) ==
    CASE key.variant = "EC" ->
           Member("kty", "EC") @@ Member("crv", "P-256")
           @@ OptMember("d", key.curve.d, serialize_base64(key.curve.d[1]))
           @@ Member("x", serialize_base64(key.curve.x))
           @@ Member("y", serialize_base64(key.curve.y))
      [] key.variant = "RSA" ->
           Member("kty", "RSA")
           @@ Member("e", serialize_exponent(key.public.e))
           @@ Member("n", serialize_base64(key.public.n))
           @@ (IF key.private = None THEN NoMembers
               ELSE LET private == key.private[1]
                    IN  Member("d", serialize_base64(private.d))
                        @@ OptMember("p", private.p, serialize_base64(private.p[1]))
                        @@ OptMember("q", private.q, serialize_base64(private.q[1]))
                        @@ OptMember("dp", private.dp, serialize_base64(private.dp[1]))
                        @@ OptMember("dq", private.dq, serialize_base64(private.dq[1]))
                        @@ OptMember("qi", private.qi, serialize_base64(private.qi[1])))
      [] key.variant = "Symmetric" ->
           Member("kty", "oct") @@ Member("k", serialize_base64(key.key))

to_json_without_rename(self) ==
    serialize_key(self.key)
    @@ OptMember("use", self.key_use, serialize_key_use(self.key_use[1]))
    @@ (IF self.key_ops = {} THEN NoMembers
        ELSE Member("key_ops", serialize_key_ops(self.key_ops)))
    @@ OptMember("key_id", self.key_id, self.key_id[1])
    @@ OptMember("alg", self.algorithm, self.algorithm[1])

\* Serialize for JsonWebKey: serde_json::to_string, as a JSON object.
to_json(self) ==
    serialize_key(self.key)
    @@ OptMember("use", self.key_use, serialize_key_use(self.key_use[1]))
    @@ (IF self.key_ops = {} THEN NoMembers
        ELSE Member("key_ops", serialize_key_ops(self.key_ops)))
    @@ OptMember("kid", self.key_id, self.key_id[1])
    @@ OptMember("alg", self.algorithm, self.algorithm[1])

\* The values of a struct's fields put together, once every field has one.
RsaPrivateOf(d, p, q, dp, dq, qi) ==
    IF IsOk(d) /\ IsOk(p) /\ IsOk(q) /\ IsOk(dp) /\ IsOk(dq) /\ IsOk(qi)
    THEN Ok(RsaPrivate(d.value, p.value, q.value, dp.value, dq.value, qi.value))
    ELSE Err("Serde")

\* Deserialize for RsaPrivate.
deserialize_rsa_private(doc) ==
    RsaPrivateOf(Field(doc, "d", deserialize_byte_vec(doc["d"])),
                 OptField(doc, "p", deserialize_byte_vec(doc["p"])),
                 OptField(doc, "q", deserialize_byte_vec(doc["q"])),
                 OptField(doc, "dp", deserialize_byte_vec(doc["dp"])),
                 OptField(doc, "dq", deserialize_byte_vec(doc["dq"])),
                 OptField(doc, "qi", deserialize_byte_vec(doc["qi"])))

\* A flattened Option: a group that does not deserialize is None.
FlattenedOption(group) == IF IsOk(group) THEN Some(group.value) ELSE None

P256Of(d, x, y) ==
    IF IsOk(d) /\ IsOk(x) /\ IsOk(y)
    THEN Ok(EC(P256(d.value, x.value, y.value)))
    ELSE Err("Serde")

RsaOf(e, n, private) ==
    IF IsOk(e) /\ IsOk(n)
    THEN Ok(RSA([e |-> e.value, n |-> n.value], private))
    ELSE Err("Serde")

SymmetricOf(k) == IF IsOk(k) THEN Ok(Symmetric(k.value)) ELSE Err("Serde")

\* Deserialize for Key: the variant by "kty", the curve by "crv".
deserialize_key(doc) ==
    IF ~Has(doc, "kty") THEN Err("Serde")
    ELSE CASE doc["kty"] = "EC" ->
                IF ~Has(doc, "crv") \/ doc["crv"] # "P-256" THEN Err("Serde")
                ELSE P256Of(OptField(doc, "d", deserialize_u32(doc["d"])),
                            Field(doc, "x", deserialize_u32(doc["x"])),
                            Field(doc, "y", deserialize_u32(doc["y"])))
           [] doc["kty"] = "RSA" ->
                RsaOf(Field(doc, "e", deserialize_exponent(doc["e"])),
                      Field(doc, "n", deserialize_byte_vec(doc["n"])),
                      FlattenedOption(deserialize_rsa_private(doc)))
           [] doc["kty"] = "oct" ->
                SymmetricOf(Field(doc, "k", deserialize_byte_vec(doc["k"])))
           [] OTHER -> Err("Serde")

\* A member with serde(default): the default when left out.
DefaultField(doc, name, value, default) ==
    IF Has(doc, name) THEN value ELSE Ok(default)

JsonWebKeyOf(key, key_use, key_ops, key_id, algorithm) ==
    IF IsOk(key) /\ IsOk(key_use) /\ IsOk(key_ops) /\ IsOk(key_id) /\ IsOk(algorithm)
    THEN Ok(JsonWebKey(key.value, key_use.value, key_ops.value,
                       key_id.value, algorithm.value))
    ELSE Err("Serde")

\* Deserialize for JsonWebKey.
deserialize_jwk(doc) ==
    JsonWebKeyOf(deserialize_key(doc),
                 OptField(doc, "use", deserialize_key_use(doc["use"])),
                 DefaultField(doc, "key_ops", deserialize_key_ops(doc["key_ops"]), {}),
                 OptField(doc, "kid", deserialize_string(doc["kid"])),
                 OptField(doc, "alg", deserialize_algorithm(doc["alg"])))

\* JsonWebKey::from_slice
from_slice(bytes) == deserialize_jwk(bytes)

\* Result::map(|_| jwk): the record in place of the unit, an error as it is.
MapTo(valid, parsed) == IF IsOk(valid) THEN parsed ELSE valid

\* The part of from_str after from_slice: fail on an algorithm that does not
\* suit the key.
Validated(parsed) ==
    IF ~IsOk(parsed) THEN parsed
    ELSE IF parsed.value.algorithm = None THEN parsed
    ELSE MapTo(validate_algorithm(parsed.value.algorithm[1], parsed.value.key), parsed)

\* impl FromStr for JsonWebKey
from_str(json) == Validated(from_slice(json))

(***************************************************************************)
(* The inputs the operations are applied to.                               *)
(***************************************************************************)
SampleBytes == {0, 1, 200}

\* Uniform byte vectors of every length, and some with a leading zero byte.
ByteVecs ==
    {Fill(b, n) : b \in SampleBytes, n \in 0..MaxVecLen}
    \cup {<<0>> \o Fill(200, n) : n \in 1..MaxVecLen}

ShortVecs == {v \in ByteVecs : Len(v) <= 2}

ByteArrays == {Fill(0, U32), Fill(200, U32), [i \in 1..U32 |-> i]}

EcKeys ==
    {EC(P256(d, x, y)) :
        d \in {None} \cup {Some(a) : a \in ByteArrays},
        x \in ByteArrays, y \in ByteArrays}

CrtNames == {"p", "q", "dp", "dq", "qi"}

\* An RsaPrivate whose CRT fields are the ones in present, all holding v.
RsaPrivateWith(d, present, v) ==
    LET f(name) == IF name \in present THEN Some(v) ELSE None
    IN  RsaPrivate(d, f("p"), f("q"), f("dp"), f("dq"), f("qi"))

RsaKeys ==
    {RSA(RsaPublic(n), None) : n \in ByteVecs}
    \cup {RSA(RsaPublic(n), Some(RsaPrivateWith(n, CrtNames, n))) : n \in ByteVecs}
    \cup {RSA(RsaPublic(n), Some(RsaPrivateWith(<<1>>, present, n))) :
            n \in {<<>>, <<200, 1>>}, present \in SUBSET CrtNames}

SymmetricKeys == {Symmetric(k) : k \in ShortVecs}

Keys == EcKeys \cup RsaKeys \cup SymmetricKeys

Algorithms == {"HS256", "RS256", "ES256"}

\* The keys the JSON documents are written from.
DocKeys ==
    { EC(P256(None, Fill(0, U32), Fill(200, U32))),
      EC(P256(Some([i \in 1..U32 |-> i]), Fill(0, U32), Fill(200, U32))),
      RSA(RsaPublic(<<200, 1>>), None),
      RSA(RsaPublic(<<200, 1>>), Some(RsaPrivateWith(<<1>>, CrtNames, <<200>>))),
      RSA(RsaPublic(<<200, 1>>), Some(RsaPrivateWith(<<1>>, {"p", "q"}, <<200>>))),
      Symmetric(<<1, 200>>),
      Symmetric(<<>>) }

DocRecords ==
    {new(k) : k \in DocKeys}
    \cup {JsonWebKey(k, Some("Signing"), {"sign", "verify"}, Some("my signing key"), None) :
            k \in DocKeys}

\* Documents that are not a key: a member missing, or one that does not decode.
BadDocs ==
    LET ec == to_json(new(EC(P256(None, Fill(0, U32), Fill(200, U32)))))
        rsa == to_json(new(RSA(RsaPublic(<<200, 1>>), None)))
        oct == to_json(new(Symmetric(<<1, 200>>)))
    IN  { NoMembers,
          Member("kty", "OKP") @@ oct,
          Member("crv", "P-384") @@ ec,
          Member("x", serialize_base64(Fill(0, U32 - 1))) @@ ec,
          Member("y", serialize_base64(Fill(0, U32 + 1))) @@ ec,
          Member("x", <<"Z">>) @@ ec,
          Member("e", <<"A", "Q">>) @@ rsa,
          Member("use", "foo") @@ oct,
          Member("alg", "HS256") @@ Member("k", <<"=">>) @@ oct }

\* The documents parsed: every record's own JSON, the same with each name of
\* an algorithm (one of them unknown) as "alg", the padded exponent, and the
\* broken ones.
Docs ==
    {to_json(j) : j \in DocRecords}
    \cup {Member("alg", a) @@ to_json(j) :
            j \in DocRecords, a \in Algorithms \cup {"PS256"}}
    \cup {Member("e", PUBLIC_EXPONENT_B64_PADDED) @@ Member("alg", a)
            @@ to_json(new(RSA(RsaPublic(<<200, 1>>), None))) : a \in Algorithms}
    \cup BadDocs

ExpSymbols == {"A", "Q", "B"}

RECURSIVE TextsUpTo(_)
TextsUpTo(n) ==
    IF n = 0 THEN {<<>>}
    ELSE LET shorter == TextsUpTo(n - 1)
         IN  shorter \cup {Append(t, c) : t \in shorter, c \in ExpSymbols}

\* Candidate exponent texts: every short text over the symbols of "AQAB",
\* alone and followed by padding.
ExponentStrings ==
    {t \o pad : t \in TextsUpTo(MaxExpLen),
                pad \in {<<>>, <<"=">>, <<"A", "A", "=", "=">>}}

\* The keys the exponent specification exports.
ExponentKeys ==
    { RSA(RsaPublic(<<>>), None),
      RSA(RsaPublic(<<200, 1>>), None),
      RSA(RsaPublic(<<200, 1>>), Some(RsaPrivateWith(<<1>>, CrtNames, <<200>>))),
      RSA(RsaPublic(<<0, 1, 0, 1>>), Some(RsaPrivateWith(<<1, 0, 1>>, CrtNames, <<1, 0, 1>>))) }

(***************************************************************************)
(* The state machine.  jwk is the JsonWebKey of the run: None until one of *)
(* the constructors (new, from_slice, from_str) has produced it.  result   *)
(* is the last call: its name, its arguments and what it returned.         *)
(***************************************************************************)
Init ==
    /\ jwk = None
    /\ result = [op |-> "start"]

\* JsonWebKey::new(key)
New(key) ==
    /\ jwk = None
    /\ jwk' = Some(new(key))
    /\ result' = [op |-> "new", key |-> key]

\* The run has the record a parse returned, if it returned one.
Parsed(op, doc, ret) ==
    /\ jwk' = IF IsOk(ret) THEN Some(ret.value) ELSE None
    /\ result' = [op |-> op, doc |-> doc, ret |-> ret]

\* JsonWebKey::from_slice(bytes)
FromSlice(doc) ==
    /\ jwk = None
    /\ Parsed("from_slice", doc, from_slice(doc))

\* json.parse::<JsonWebKey>()
FromStr(doc) ==
    /\ jwk = None
    /\ Parsed("from_str", doc, from_str(doc))

Called(alg, call) ==
    /\ jwk' = Some(call.self)
    /\ result' = [op |-> "set_algorithm", alg |-> alg, ret |-> call.ret]

\* jwk.set_algorithm(alg)
SetAlgorithm(alg) ==
    /\ jwk # None
    /\ Called(alg, set_algorithm(jwk[1], alg))

\* jwk.key.is_private()
IsPrivate ==
    /\ jwk # None
    /\ result' = [op |-> "is_private", ret |-> is_private(jwk[1].key)]
    /\ UNCHANGED jwk

\* jwk.key.to_public()
ToPublic ==
    /\ jwk # None
    /\ result' = [op |-> "to_public", ret |-> to_public(jwk[1].key)]
    /\ UNCHANGED jwk

\* jwk.key.try_to_der()
TryToDer ==
    /\ jwk # None
    /\ result' = [op |-> "try_to_der", ret |-> try_to_der(jwk[1].key)]
    /\ UNCHANGED jwk

\* jwk.key.try_to_pem()
TryToPem ==
    /\ jwk # None
    /\ result' = [op |-> "try_to_pem", ret |-> try_to_pem(jwk[1].key)]
    /\ UNCHANGED jwk

\* jwk.key.to_decoding_key()
ToDecodingKey ==
    /\ jwk # None
    /\ result' = [op |-> "to_decoding_key", ret |-> to_decoding_key(jwk[1].key)]
    /\ UNCHANGED jwk

Next ==
    \/ \E key \in Keys : New(key)
    \/ \E doc \in Docs : FromSlice(doc)
    \/ \E doc \in Docs : FromStr(doc)
    \/ \E alg \in Algorithms : SetAlgorithm(alg)
    \/ IsPrivate
    \/ ToPublic
    \/ TryToDer
    \/ TryToPem
    \/ ToDecodingKey

Spec == Init /\ [][Next]_vars

(***************************************************************************)
(* The public exponent on its own: its two codecs applied to candidate     *)
(* texts, and the DER export of keys built with it.                        *)
(***************************************************************************)
InitExponent ==
    /\ jwk \in {Some(new(k)) : k \in ExponentKeys}
    /\ result = [op |-> "start"]

\* PublicExponent::deserialize on the JSON string text
DeserializeExponent(text) ==
    /\ result' = [op |-> "deserialize_exponent", text |-> text,
                  ret |-> deserialize_exponent(text)]
    /\ UNCHANGED jwk

\* PublicExponent::serialize
SerializeExponent ==
    /\ result' = [op |-> "serialize_exponent", e |-> PublicExponent,
                  ret |-> serialize_exponent(PublicExponent)]
    /\ UNCHANGED jwk

NextExponent ==
    \/ \E text \in ExponentStrings : DeserializeExponent(text)
    \/ SerializeExponent
    \/ TryToDer

SpecExponent == InitExponent /\ [][NextExponent]_vars

(***************************************************************************)
(* ByteArray<N> on its own: try_from_slice on slices of every length up to *)
(* MaxSliceLen, and the two codecs on the texts of those slices and on     *)
(* texts that are not base64.                                              *)
(***************************************************************************)
\* The longest slice offered to try_from_slice.
MaxSliceLen == 33

\* byte_array.rs tests: static BYTES
BYTES == <<1, 2, 3, 4, 5, 6, 7>>

ArrayLens == {U0, U7, U32}

Slices ==
    {Fill(b, n) : b \in SampleBytes, n \in 0..MaxSliceLen}
    \cup {BYTES, SubSeq(BYTES, 1, 6), BYTES \o <<8>>}

\* A text without its trailing padding.
Unpadded(text) == SelectSeq(text, LAMBDA c : c # "=")

\* Texts that do not decode: a lone symbol, a symbol outside the alphabet,
\* padding alone, a symbol after the padding.
BadTexts ==
    { <<"Z">>, <<"A", "*", "A", "A">>, <<"=">>, <<"A", "Q", "=", "=", "A">>,
      <<"A", "Q", "I", "D", "B">>, <<"A", "=">>, <<"A", "A", "A", "A", "=">>,
      <<"A", "B", "=">>, <<"A", "A", "A", "=", "=">> }

\* A text without the last of its padding.
PartlyPadded(text) ==
    IF text # <<>> /\ text[Len(text)] = "=" THEN SubSeq(text, 1, Len(text) - 1) ELSE text

ArrayTexts ==
    {serialize_base64(b) : b \in Slices}
    \cup {Unpadded(serialize_base64(b)) : b \in Slices}
    \cup {PartlyPadded(serialize_base64(b)) : b \in Slices}
    \cup BadTexts

InitByteArray ==
    /\ jwk = None
    /\ result = [op |-> "start"]

\* ByteArray::<N>::try_from_slice(bytes)
TryFromSlice(bytes, N) ==
    /\ result' = [op |-> "try_from_slice", bytes |-> bytes, N |-> N,
                  ret |-> try_from_slice(bytes, N)]
    /\ UNCHANGED jwk

\* ByteArray::<N>::deserialize on the JSON string text
DeserializeByteArray(text, N) ==
    /\ result' = [op |-> "deserialize_byte_array", text |-> text, N |-> N,
                  ret |-> deserialize_byte_array(text, N)]
    /\ UNCHANGED jwk

\* ByteArray::<N>::serialize of an array holding bytes
SerializeByteArray(bytes) ==
    /\ Len(bytes) \in ArrayLens
    /\ result' = [op |-> "serialize_byte_array", bytes |-> bytes,
                  ret |-> serialize_base64(bytes)]
    /\ UNCHANGED jwk

NextByteArray ==
    \/ \E bytes \in Slices, N \in ArrayLens : TryFromSlice(bytes, N)
    \/ \E text \in ArrayTexts, N \in ArrayLens : DeserializeByteArray(text, N)
    \/ \E bytes \in Slices : SerializeByteArray(bytes)

SpecByteArray == InitByteArray /\ [][NextByteArray]_vars

(***************************************************************************)
(* The JSON form on its own: a record with any of its public fields set is *)
(* written with to_string and the text is parsed back with from_str and    *)
(* from_slice.                                                             *)
(***************************************************************************)
\* Byte vectors whose base64 has every padding length and every symbol class.
JsonVecs == {<<>>, <<1>>, <<200, 1>>, <<0, 1, 200>>, <<251, 255>>, Fill(200, MaxVecLen)}

JsonKeys ==
    {EC(P256(d, [i \in 1..U32 |-> i], Fill(200, U32))) :
        d \in {None, Some(Fill(0, U32)), Some([i \in 1..U32 |-> 255 - i])}}
    \cup {RSA(RsaPublic(n), None) : n \in JsonVecs}
    \cup {RSA(RsaPublic(<<200, 1>>), Some(RsaPrivateWith(d, present, <<251, 255>>))) :
            d \in {<<>>, <<1>>}, present \in SUBSET CrtNames}
    \cup {Symmetric(k) : k \in JsonVecs}

KeyUses == {"Signing", "Encryption"}

KeyOpSets ==
    {{}, {"sign"}, {"verify", "sign"}, {"deriveBits", "wrapKey", "encrypt"},
     {KeyOpNames[i] : i \in 1..Len(KeyOpNames)},
     {"foo"}, {"foo", "sign"}, {"x-custom", "foo", "decrypt", "unwrapKey"}}

KeyIds == {"", "my signing key"}

\* Every record with a key of JsonKeys and an algorithm that suits it, if any.
JsonRecords ==
    {j \in {JsonWebKey(k, u, ops, kid, alg) :
                k \in JsonKeys,
                u \in {None} \cup {Some(x) : x \in KeyUses},
                ops \in KeyOpSets,
                kid \in {None} \cup {Some(x) : x \in KeyIds},
                alg \in {None} \cup {Some(x) : x \in Algorithms}} :
        j.algorithm = None \/ IsOk(validate_algorithm(j.algorithm[1], j.key))}

InitJson ==
    /\ jwk \in {Some(j) : j \in JsonRecords}
    /\ result = [op |-> "start"]

\* jwk.to_string()
ToJsonString ==
    /\ result' = [op |-> "to_string", ret |-> to_json(jwk[1])]
    /\ UNCHANGED jwk

\* The text to_string returned, parsed with JsonWebKey::from_slice
FromSliceWritten ==
    /\ result.op = "to_string"
    /\ result' = [op |-> "from_slice", doc |-> result.ret, ret |-> from_slice(result.ret)]
    /\ UNCHANGED jwk

\* The text to_string returned, parsed with str::parse::<JsonWebKey>
FromStrWritten ==
    /\ result.op = "to_string"
    /\ result' = [op |-> "from_str", doc |-> result.ret, ret |-> from_str(result.ret)]
    /\ UNCHANGED jwk

NextJson ==
    \/ ToJsonString
    \/ FromSliceWritten
    \/ FromStrWritten

SpecJson == InitJson /\ [][NextJson]_vars

(***************************************************************************)
(* The claims.  Rec and K are the record and key of the current state.     *)
(***************************************************************************)
Rec == jwk[1]

K == jwk[1].key

\* The table of section 4.5: the three pairs of algorithm and key.
Compatible(alg, key) ==
    \/ alg = "ES256" /\ key.variant = "EC" /\ key.curve.crv = "P256"
    \/ alg = "RS256" /\ key.variant = "RSA"
    \/ alg = "HS256" /\ key.variant = "Symmetric"

\* The key holds private material: symmetric, EC with d, RSA with private.
HoldsPrivate(key) ==
    \/ key.variant = "Symmetric"
    \/ key.variant = "EC" /\ key.curve.d # None
    \/ key.variant = "RSA" /\ key.private # None

\* C1: set_algorithm returns Ok exactly for (ES256, EC/P-256), (RS256, RSA)
\* and (HS256, Symmetric), and Err(MismatchedAlgorithm) for every other pair,
\* whatever the key's private part or modulus.
C1_SetAlgorithmTable ==
    result.op = "set_algorithm" =>
        IF Compatible(result.alg, K)
        THEN result.ret = Ok(Unit)
        ELSE result.ret = Err("MismatchedAlgorithm")

\* RS256 has been accepted on a private RSA key with the longest modulus.
C1_Witness ==
    /\ result.op = "set_algorithm"
    /\ result.alg = "RS256"
    /\ IsOk(result.ret)
    /\ K.variant = "RSA"
    /\ K.private # None
    /\ Len(K.public.n) = MaxVecLen

\* C2: a set_algorithm that returns an error leaves the whole record as it
\* was, a previously set algorithm included; one that returns Ok changes the
\* algorithm field to Some(alg) and nothing else.
C2_SetAlgorithmAtomic ==
    [][result'.op = "set_algorithm" =>
          IF IsOk(result'.ret)
          THEN jwk' = Some([Rec EXCEPT !.algorithm = Some(result'.alg)])
          ELSE jwk' = jwk]_vars

\* A set_algorithm has failed on a record that keeps its earlier algorithm.
C2_Witness ==
    /\ result.op = "set_algorithm"
    /\ IsErr(result.ret)
    /\ Rec.algorithm # None
    /\ Rec.algorithm # Some(result.alg)

\* C3: parsing a document whose "alg" does not suit its key fails with the
\* mismatched-algorithm error through from_slice and through from_str alike;
\* with "alg" absent or suitable the parse returns the deserialized record.
C3_ParseRejectsMismatch ==
    (result.op \in {"from_slice", "from_str"} /\ IsOk(deserialize_jwk(result.doc))) =>
        IF /\ deserialize_jwk(result.doc).value.algorithm # None
           /\ ~Compatible(deserialize_jwk(result.doc).value.algorithm[1],
                          deserialize_jwk(result.doc).value.key)
        THEN result.ret = Err("MismatchedAlgorithm")
        ELSE result.ret = deserialize_jwk(result.doc)

\* C4: in every record the constructors and set_algorithm lead to, an
\* algorithm that is set suits the key; and a record made by new() has no
\* algorithm, use or id and an empty key_ops.
C4_AlgorithmSuitsKey ==
    /\ (jwk # None /\ Rec.algorithm # None) => Compatible(Rec.algorithm[1], K)
    /\ result.op = "new" =>
          /\ Rec.algorithm = None
          /\ Rec.key_use = None
          /\ Rec.key_id = None
          /\ Rec.key_ops = {}

\* C5: is_private is true exactly for a Symmetric key, an EC key with d and
\* an RSA key with private.
C5_IsPrivate ==
    result.op = "is_private" => (result.ret <=> HoldsPrivate(K))

\* is_private has answered false for an RSA key without private.
C5_Witness ==
    /\ result.op = "is_private"
    /\ K.variant = "RSA"
    /\ K.private = None
    /\ result.ret = FALSE

\* C6: to_public is None for a Symmetric key; for an EC key Some key with d
\* cleared and the same x and y; for an RSA key Some key with private cleared
\* and the same public; for a public key the key itself; and a Some result
\* is never private.
C6_ToPublic ==
    result.op = "to_public" =>
        /\ K.variant = "Symmetric" => result.ret = None
        /\ K.variant = "EC" =>
              result.ret = Some(EC(P256(None, K.curve.x, K.curve.y)))
        /\ K.variant = "RSA" => result.ret = Some(RSA(K.public, None))
        /\ ~HoldsPrivate(K) => result.ret = Some(K)
        /\ result.ret # None => ~HoldsPrivate(result.ret[1])

\* to_public has been taken of an EC key with a private scalar.
C6_Witness ==
    /\ result.op = "to_public"
    /\ K.variant = "EC"
    /\ K.curve.d # None
    /\ result.ret # None

\* C7: to_public of the result of to_public is that result again, for every
\* EC and RSA key; to_public of a Symmetric key is None.
C7_ToPublicIdempotent ==
    result.op = "to_public" =>
        IF K.variant = "Symmetric"
        THEN result.ret = None
        ELSE result.ret # None /\ to_public(result.ret[1]) = result.ret

\* to_public has been taken of a private RSA key.
C7_Witness ==
    /\ result.op = "to_public"
    /\ K.variant = "RSA"
    /\ K.private # None
    /\ result.ret # None
    /\ result.ret[1] # K

\* An RsaPrivate lacks one of p, q, dp, dq, qi.
LacksCrt(private) ==
    \E o \in {private.p, private.q, private.dp, private.dq, private.qi} : o = None

\* C8: try_to_der is Err(NotAsymmetric) for a Symmetric key,
\* Err(MissingRsaParams) for an RSA key whose private lacks one of p, q, dp,
\* dq, qi, and Ok for every other key; it never aborts in the writer that
\* unwraps those fields.
C8_TryToDer ==
    result.op = "try_to_der" =>
        CASE K.variant = "Symmetric" -> result.ret = Err("NotAsymmetric")
          [] K.variant = "RSA" /\ K.private # None /\ LacksCrt(K.private[1]) ->
                result.ret = Err("MissingRsaParams")
          [] OTHER -> IsOk(result.ret)

\* try_to_der has refused an RSA key that lacks qi alone.
C8_Witness ==
    /\ result.op = "try_to_der"
    /\ K.variant = "RSA"
    /\ K.private # None
    /\ K.private[1].qi = None
    /\ K.private[1].p # None
    /\ K.private[1].q # None
    /\ K.private[1].dp # None
    /\ K.private[1].dq # None
    /\ result.ret = Err("MissingRsaParams")

\* The lines of a text in which every line ends with a line feed: the k-th
\* line lies between the (k-1)-th and the k-th line feed.
SplitLines(text) ==
    LET feeds == {i \in 1..Len(text) : text[i] = "\n"}
        feed(k) == IF k = 0 THEN 0
                   ELSE CHOOSE i \in feeds : Cardinality({j \in feeds : j < i}) = k - 1
    IN  [k \in 1..Cardinality(feeds) |-> SubSeq(text, feed(k - 1) + 1, feed(k) - 1)]

PemLine(word, kind) ==
    <<"-", "-", "-", "-", "-">> \o word \o <<" ">> \o kind
    \o <<" ", "K", "E", "Y", "-", "-", "-", "-", "-">>

PemKind(key) ==
    IF HoldsPrivate(key)
    THEN <<"P", "R", "I", "V", "A", "T", "E">>
    ELSE <<"P", "U", "B", "L", "I", "C">>

\* A PEM text for a key and its DER bytes: BEGIN and END lines of the key's
\* kind around the base64 of the bytes in lines of 64 symbols, the last of
\* 1 to 64.
IsPemOf(text, key, der) ==
    LET lines == SplitLines(text)
        n == Len(lines)
        body == SubSeq(lines, 2, n - 1)
    IN  /\ text[Len(text)] = "\n"
        /\ n >= 3
        /\ lines[1] = PemLine(<<"B", "E", "G", "I", "N">>, PemKind(key))
        /\ lines[n] = PemLine(<<"E", "N", "D">>, PemKind(key))
        /\ \A i \in 1..(Len(body) - 1) : Len(body[i]) = 64
        /\ Len(body[Len(body)]) \in 1..64
        /\ Concat(body) = Base64Encode(der)

\* C9: try_to_pem fails exactly when try_to_der fails, with the same error;
\* otherwise its text is the PEM framing of the DER output: PRIVATE if
\* is_private and PUBLIC if not, in both lines, around 64-symbol lines.
C9_TryToPem ==
    result.op = "try_to_pem" =>
        IF IsOk(try_to_der(K))
        THEN IsOk(result.ret) /\ IsPemOf(result.ret.value, K, try_to_der(K).value)
        ELSE result.ret = try_to_der(K)

\* A private key has been exported as PEM with a body of three lines or more.
C9_Witness ==
    /\ result.op = "try_to_pem"
    /\ IsOk(result.ret)
    /\ HoldsPrivate(K)
    /\ Len(SplitLines(result.ret.value)) >= 5

\* One DER item at position pos of bytes: its tag, where its content starts
\* and how long that is.
DerRead(bytes, pos) ==
    LET first == bytes[pos + 1]
        k == IF first < 128 THEN 0 ELSE first - 128
        RECURSIVE value(_, _)
        value(i, acc) == IF i > k THEN acc ELSE value(i + 1, acc * 256 + bytes[pos + 1 + i])
    IN  [tag |-> bytes[pos], start |-> pos + 2 + k,
         len |-> IF first < 128 THEN first ELSE value(1, 0)]

\* The items that fill bytes[from .. to].
RECURSIVE DerItems(_, _, _)
DerItems(bytes, from, to) ==
    IF from > to THEN <<>>
    ELSE <<DerRead(bytes, from)>>
         \o DerItems(bytes, DerRead(bytes, from).start + DerRead(bytes, from).len, to)

DerChildren(bytes, item) == DerItems(bytes, item.start, item.start + item.len - 1)

\* The unsigned value of an item's content.
RECURSIVE DerValue(_, _, _)
DerValue(bytes, item, i) ==
    IF i = 0 THEN 0
    ELSE DerValue(bytes, item, i - 1) * 256 + bytes[item.start + i - 1]

\* The publicExponent INTEGER of a PKCS#8 RSA key: in RSAPublicKey inside the
\* BIT STRING of a public key, in RSAPrivateKey inside the OCTET STRING of a
\* private one.
DerExponent(der) ==
    LET top == DerChildren(der, DerRead(der, 1))
        e == IF top[1].tag = 2
             THEN DerChildren(der, DerRead(der, top[3].start))[3]
             ELSE DerChildren(der, DerRead(der, top[2].start + 1))[2]
    IN  IF e.tag = 2 THEN DerValue(der, e, e.len) ELSE -1

\* C10: PublicExponent deserializes from "AQAB" and "AQABAA==", to the one
\* PublicExponent, and from no other text; it serializes to "AQAB", which
\* deserializes to it again; and the exponent in a DER RSA key is 65537.
C10_PublicExponent ==
    /\ result.op = "deserialize_exponent" =>
          IF \/ result.text = <<"A", "Q", "A", "B">>
             \/ result.text = <<"A", "Q", "A", "B", "A", "A", "=", "=">>
          THEN result.ret = Ok(PublicExponent)
          ELSE IsErr(result.ret)
    /\ result.op = "serialize_exponent" =>
          /\ result.ret = <<"A", "Q", "A", "B">>
          /\ deserialize_exponent(result.ret) = Ok(result.e)
    /\ (result.op = "try_to_der" /\ IsOk(result.ret) /\ K.variant = "RSA") =>
          DerExponent(result.ret.value) = 65537

\* The padded text has been deserialized to the exponent.
C10_Witness ==
    /\ result.op = "deserialize_exponent"
    /\ result.text = <<"A", "Q", "A", "B", "A", "A", "=", "=">>
    /\ result.ret = Ok(PublicExponent)

(***************************************************************************)
(* C11: A ByteArray<N> holds exactly N bytes.  try_from_slice(bytes)       *)
(* succeeds if and only if the slice has N bytes, the array then holding   *)
(* the slice's bytes, and its error names N and the slice's length.        *)
(* Deserialization fails when the text is not base64 and otherwise         *)
(* succeeds if and only if the decoded bytes are N, the array holding the  *)
(* decoded bytes; the text an N-byte array serializes to (with or without  *)
(* its padding) deserializes to that array, and the text of a shorter or   *)
(* longer one fails.                                                       *)
(***************************************************************************)
C11_ByteArrayLength ==
    /\ result.op = "try_from_slice" =>
          /\ IsOk(result.ret) <=> Len(result.bytes) = result.N
          /\ IsOk(result.ret) => result.ret.value = result.bytes
          /\ IsErr(result.ret) =>
                result.ret.err = [expected |-> result.N, got |-> Len(result.bytes)]
    /\ result.op = "deserialize_byte_array" =>
          /\ result.text \in BadTexts => IsErr(result.ret)
          /\ IsErr(deserialize_base64(result.text)) => IsErr(result.ret)
          /\ IsOk(deserialize_base64(result.text)) =>
                /\ IsOk(result.ret) <=>
                      Len(deserialize_base64(result.text).value) = result.N
                /\ IsOk(result.ret) =>
                      result.ret.value = deserialize_base64(result.text).value
          /\ \A b \in Slices :
                result.text \in {serialize_base64(b), Unpadded(serialize_base64(b)),
                                 PartlyPadded(serialize_base64(b))} =>
                    /\ IsOk(result.ret) <=> Len(b) = result.N
                    /\ IsOk(result.ret) => result.ret.value = b
          /\ IsOk(result.ret) => Len(result.ret.value) = result.N

\* A text of U32 + 1 bytes has been refused as a ByteArray<U32>.
C11_Witness ==
    /\ result.op = "deserialize_byte_array"
    /\ result.N = U32
    /\ IsOk(deserialize_base64(result.text))
    /\ Len(deserialize_base64(result.text).value) = U32 + 1
    /\ IsErr(result.ret)

\* The optional members the key of a record has a value for.
KeyMembers(key) ==
    CASE key.variant = "EC" ->
           {"kty", "crv", "x", "y"} \cup (IF key.curve.d = None THEN {} ELSE {"d"})
      [] key.variant = "RSA" ->
           {"kty", "e", "n"}
           \cup (IF key.private = None THEN {}
                 ELSE {"d"} \cup {name \in CrtNames : key.private[1][name] # None})
      [] key.variant = "Symmetric" -> {"kty", "k"}

\* The members a record is written with: those of its key, and one for each
\* optional field that holds a value.
WrittenMembers(j) ==
    KeyMembers(j.key)
    \cup (IF j.key_use = None THEN {} ELSE {"use"})
    \cup (IF j.key_ops = {} THEN {} ELSE {"key_ops"})
    \cup (IF j.key_id = None THEN {} ELSE {"kid"})
    \cup (IF j.algorithm = None THEN {} ELSE {"alg"})

(***************************************************************************)
(* C12: JSON round trip.  The text a record is written as has exactly the  *)
(* members of its key and of the optional fields that hold a value (a None *)
(* and an empty key_ops are left out, never written as null or []), and    *)
(* parsing that text, with from_slice or from_str, returns a record equal  *)
(* to the one written; the fields whose members are missing are read as    *)
(* None / the empty set.                                                   *)
(***************************************************************************)
C12_JsonRoundTrip ==
    /\ result.op = "to_string" =>
          /\ DOMAIN result.ret = WrittenMembers(Rec)
          /\ Has(result.ret, "key_ops") =>
                /\ result.ret["key_ops"] # <<>>
                /\ Len(result.ret["key_ops"]) = Cardinality(Rec.key_ops)
                /\ \A t \in Rec.key_ops :
                      \E i \in 1..Len(result.ret["key_ops"]) : result.ret["key_ops"][i] = t
    /\ result.op \in {"from_slice", "from_str"} =>
          /\ result.ret = Ok(Rec)
          /\ ~Has(result.doc, "use") => result.ret.value.key_use = None
          /\ ~Has(result.doc, "key_ops") => result.ret.value.key_ops = {}
          /\ ~Has(result.doc, "kid") => result.ret.value.key_id = None
          /\ ~Has(result.doc, "alg") => result.ret.value.algorithm = None

\* An RSA private key with some but not all CRT fields, an id, a use, key
\* operations (one of them not a recognized name) and RS256 has been written
\* and parsed back.
C12_Witness ==
    /\ result.op = "from_str"
    /\ IsOk(result.ret)
    /\ K.variant = "RSA" /\ K.private # None
    /\ K.private[1].p # None /\ K.private[1].qi = None
    /\ Rec.key_id = Some("my signing key")
    /\ Rec.key_use # None /\ Rec.algorithm = Some("RS256")
    /\ {"foo", "decrypt"} \subseteq Rec.key_ops
    /\ result.ret.value = Rec

(***************************************************************************)
(* C13: to_decoding_key returns a key, without aborting, for every Key:    *)
(* symmetric, EC public or private, RSA public, and RSA private with any   *)
(* subset of the CRT fields; for an EC or RSA key the PEM handed to the    *)
(* JWT library is the PUBLIC KEY encoding of to_public() of the key.       *)
(***************************************************************************)
C13_ToDecodingKey ==
    result.op = "to_decoding_key" =>
        /\ IsOk(result.ret)
        /\ K.variant = "Symmetric" => result.ret.value.input = K.key
        /\ K.variant \in {"EC", "RSA"} =>
              /\ result.ret.value.input = try_to_pem(to_public(K)[1]).value
              /\ SplitLines(result.ret.value.input)[1]
                    = PemLine(<<"B", "E", "G", "I", "N">>, PublicWord)

====
